---- MODULE Spec2Model ----
(***************************************************************************)
(* Model of apps-script.js: the Google Calendar trigger handler            *)
(* onCalendarUpdate, which resolves the most recently edited event,        *)
(* rewrites the :tag: tokens of its title into emoji and colours the event *)
(* by the type of the first typed tag.                                     *)
(*                                                                         *)
(* A string is a sequence of one-character strings. Every emoji is one     *)
(* symbol of the sequence (none of its code units is ':' , '$' or a-z, so  *)
(* the pattern /:[a-z$]+:/ sees an emoji as one non-word character).       *)
(***************************************************************************)
EXTENDS Integers, Sequences, FiniteSets, TLC

VARIABLES
    events,      \* the calendar: event id -> [title, description, color]
    listing,     \* the calendar: the response Calendar.Events.list gives
    before,      \* the calendar's events as they were when the last invocation began
    fetched,     \* ids passed to CalendarApp.getEventById by the last invocation
    resolved,    \* the event _getLastEditedEvent returned to the last invocation
    calls,       \* setTitle / setColor calls made by the last invocation, in order
    eventType,   \* value returned by _updateEventTitleAndGetType, "unset" if not reached
    skipped,     \* the last invocation returned at the ":skip:" test
    caught,      \* the last invocation caught NoEventFound
    raisedAt,    \* the external call that raised in the last invocation, or "null"
    outcome      \* "idle" | "returned" | name of the error that left the handler

vars == <<events, listing, before, fetched, resolved, calls, eventType, skipped,
          caught, raisedAt, outcome>>

----------------------------------------------------------------------------
(* Bounds of the model. *)

\* number of pieces a title is made of, for the title-rewrite specification
MaxLen == 4
\* number of pieces the title of an event is made of, for the handler specification
MaxEventLen == 1
\* number of slots of the items of a listing response
MaxItems == 2

----------------------------------------------------------------------------
(* JavaScript values. *)

Null == "null"
Undefined == "undefined"

\* !(v) for the values the program handles: null, undefined or a non-empty string
Falsy(v) == v \in {Null, Undefined, ""}

LowerCase == {"a","b","c","d","e","f","g","h","i","j","k","l","m",
              "n","o","p","q","r","s","t","u","v","w","x","y","z"}

\* the character class [a-z], the '$' forgotten
IsLowerCaseChar(c) == c \in LowerCase

\* the character class [a-z$]
IsWordChar(c) == c \in LowerCase \cup {"$"}

Tag(word) == <<":">> \o word \o <<":">>

Data(emoji, type) == [emoji |-> emoji, eventType |-> type]

titleEnrichmentsAndTypes ==
    (Tag(<<"r","u","n">>) :> Data("runner", "RUN")) @@
    (Tag(<<"b","i","k","e">>) :> Data("cyclist", "BIKE")) @@
    (Tag(<<"b","i","r","t","h","d","a","y">>) :> Data("party_popper", "BIRTHDAY")) @@
    (Tag(<<"b","i","r","t","h">>) :> Data("party_popper", "BIRTHDAY")) @@
    (Tag(<<"c","o","m","p","l","e","a","n","n","o">>) :> Data("party_popper", "BIRTHDAY")) @@
    (Tag(<<"c","o","m","p","l","e">>) :> Data("party_popper", "BIRTHDAY")) @@
    (Tag(<<"d","i","n","n","e","r">>) :> Data("poultry_leg", "DINNER")) @@
    (Tag(<<"l","u","n","c","h">>) :> Data("poultry_leg", "DINNER")) @@
    (Tag(<<"c","e","n","a">>) :> Data("poultry_leg", "DINNER")) @@
    (Tag(<<"p","r","a","n","z","o">>) :> Data("poultry_leg", "DINNER")) @@
    (Tag(<<"h","o","s","p","i","t","a","l">>) :> Data("hospital", "HEALTH")) @@
    (Tag(<<"h","o","s","p">>) :> Data("hospital", "HEALTH")) @@
    (Tag(<<"o","s","p","e","d","a","l","e">>) :> Data("hospital", "HEALTH")) @@
    (Tag(<<"o","s","p">>) :> Data("hospital", "HEALTH")) @@
    (Tag(<<"w","o","r","k","o","u","t">>) :> Data("flexed_biceps", "GYM")) @@
    (Tag(<<"g","y","m">>) :> Data("flexed_biceps", "GYM")) @@
    (Tag(<<"m","u","s","c","l","e">>) :> Data("flexed_biceps", "GYM")) @@
    (Tag(<<"b","i","c","e","p">>) :> Data("flexed_biceps", "GYM")) @@
    (Tag(<<"b","i","c","e","p","s">>) :> Data("flexed_biceps", "GYM")) @@
    (Tag(<<"s","t","a","r">>) :> Data("star", Null)) @@
    (Tag(<<"c","h","e","c","k">>) :> Data("check_mark", Null)) @@
    (Tag(<<"i","t","a">>) :> Data("flag_italy", Null)) @@
    (Tag(<<"p","a","r","t","y">>) :> Data("party_popper", Null)) @@
    (Tag(<<"c","h","i","c","k","e","n">>) :> Data("poultry_leg", Null)) @@
    (Tag(<<"c","r","o","s","s">>) :> Data("latin_cross", Null)) @@
    (Tag(<<"d","e","a","t","h">>) :> Data("latin_cross", Null)) @@
    (Tag(<<"$">>) :> Data("money_bag", Null)) @@
    (Tag(<<"m","o","n","e","y">>) :> Data("money_bag", Null)) @@
    (Tag(<<"d","o","l","l","a","r">>) :> Data("money_bag", Null))

Tags == DOMAIN titleEnrichmentsAndTypes

----------------------------------------------------------------------------
(* String operations the program uses. *)

\* s.startsWith(pat) at the head of s
StartsWith(s, pat) == Len(s) >= Len(pat) /\ SubSeq(s, 1, Len(pat)) = pat

\* String.prototype.includes
RECURSIVE Includes(_, _)
Includes(s, pat) ==
    IF Len(s) < Len(pat) THEN FALSE
    ELSE StartsWith(s, pat) \/ Includes(Tail(s), pat)

\* String.prototype.replaceAll with a string pattern: every occurrence, found
\* left to right, an occurrence starting after the end of the previous one
RECURSIVE ReplaceAll(_, _, _)
ReplaceAll(s, pat, rep) ==
    IF Len(s) < Len(pat) THEN s
    ELSE IF StartsWith(s, pat)
         THEN rep \o ReplaceAll(SubSeq(s, Len(pat) + 1, Len(s)), pat, rep)
         ELSE <<Head(s)>> \o ReplaceAll(Tail(s), pat, rep)

\* first index >= i of s that holds no word character (Len(s) + 1 if none)
RECURSIVE WordEnd(_, _)
WordEnd(s, i) ==
    IF i <= Len(s) /\ IsWordChar(s[i]) THEN WordEnd(s, i + 1) ELSE i

\* [...s.matchAll(/:[a-z$]+:/g)] from index i on: the matched substrings, in
\* order; the search for the next match resumes after the end of the last one
RECURSIVE MatchAllFrom(_, _)
MatchAllFrom(s, i) ==
    IF i > Len(s) THEN <<>>
    ELSE IF s[i] = ":"
         THEN LET k == WordEnd(s, i + 1)
              IN  IF k > i + 1 /\ k <= Len(s) /\ s[k] = ":"
                  THEN <<SubSeq(s, i, k)>> \o MatchAllFrom(s, k + 1)
                  ELSE MatchAllFrom(s, i + 1)
         ELSE MatchAllFrom(s, i + 1)

\* the pattern without its g flag: the first match only
MatchFirst(s) ==
    LET all == MatchAllFrom(s, 1)
    IN  IF all = <<>> THEN <<>> ELSE <<all[1]>>

MatchAll(s) == MatchAllFrom(s, 1)

----------------------------------------------------------------------------
(* _updateEventTitleAndGetType *)

\* eventType = data.eventType, the test forgotten: the last tag wins
KeepLastType(type, dataType) == dataType

\* if (!(eventType)) eventType = data.eventType
KeepFirstType(type, dataType) == IF Falsy(type) THEN dataType ELSE type

\* the forEach callback: acc is the pair (newTitle, eventType) it updates
EnrichToken(acc, token) ==
    IF token \notin Tags THEN acc
    ELSE LET data == titleEnrichmentsAndTypes[token]
         IN  [newTitle  |-> ReplaceAll(acc.newTitle, token, <<data.emoji>>),
              eventType |-> KeepFirstType(acc.eventType, data.eventType)]

RECURSIVE ForEach(_, _)
ForEach(tokens, acc) ==
    IF tokens = <<>> THEN acc
    ELSE ForEach(Tail(tokens), EnrichToken(acc, Head(tokens)))

\* newTitle and eventType after the forEach over the matches of origTitle
Enrich(origTitle) ==
    ForEach(MatchAll(origTitle), [newTitle |-> origTitle, eventType |-> Null])

\* the title written back whether it changed or not
AlwaysWrite(newTitle, origTitle) == TRUE

\* if (newTitle !== origTitle)
TitleChanged(newTitle, origTitle) == newTitle # origTitle

SetTitleCall(newTitle) == [op |-> "setTitle", title |-> newTitle, color |-> Null]
SetColorCall(color) == [op |-> "setColor", title |-> <<>>, color |-> color]

\* The function on an event record ev; setTitleRaises: event.setTitle throws.
\* Gives the event as the function leaves it, the calls made, the error
\* raised ("null" if none) and the value returned.
_updateEventTitleAndGetType(ev, setTitleRaises) ==
    LET r == Enrich(ev.title)
    IN  IF ~TitleChanged(r.newTitle, ev.title)
        THEN [event |-> ev, calls |-> <<>>, raised |-> Null, returned |-> r.eventType]
        ELSE IF setTitleRaises
        THEN [event |-> ev, calls |-> <<SetTitleCall(r.newTitle)>>,
              raised |-> "ServiceError", returned |-> "unset"]
        ELSE [event |-> [ev EXCEPT !.title = r.newTitle],
              calls |-> <<SetTitleCall(r.newTitle)>>,
              raised |-> Null, returned |-> r.eventType]

----------------------------------------------------------------------------
(* _processEventByType *)

\* the switch with the color of HEALTH copied to GYM
ColorForSlip(type) ==
    CASE type = "RUN"      -> "GRAY"
      [] type = "BIKE"     -> "GRAY"
      [] type = "BIRTHDAY" -> "YELLOW"
      [] type = "DINNER"   -> "BLUE"
      [] type = "HEALTH"   -> "RED"
      [] type = "GYM"      -> "RED"
      [] OTHER             -> Null

\* the switch over eventType
ColorFor(type) ==
    CASE type = "RUN"      -> "GRAY"
      [] type = "BIKE"     -> "GRAY"
      [] type = "BIRTHDAY" -> "YELLOW"
      [] type = "DINNER"   -> "BLUE"
      [] type = "HEALTH"   -> "RED"
      [] type = "GYM"      -> "PALE_RED"
      [] OTHER             -> Null

\* id is the event handle ("null" for no event), ev its record
_processEventByType(id, ev, type, setColorRaises) ==
    IF Falsy(id)
    THEN [event |-> ev, calls |-> <<>>, raised |-> "EventNull"]
    ELSE IF Falsy(type)
    THEN [event |-> ev, calls |-> <<>>, raised |-> "EventTypeNull"]
    ELSE LET color == ColorFor(type)
         IN  IF Falsy(color)
             THEN [event |-> ev, calls |-> <<>>, raised |-> Null]
             ELSE IF setColorRaises
             THEN [event |-> ev, calls |-> <<SetColorCall(color)>>,
                   raised |-> "ServiceError"]
             ELSE [event |-> [ev EXCEPT !.color = color],
                   calls |-> <<SetColorCall(color)>>, raised |-> Null]

----------------------------------------------------------------------------
(* _getLastEditedEvent *)

EventIds == {"e1", "e2"}

\* events.items[i], i counted from 0; undefined outside the array
ItemAt(items, i) == IF i + 1 \in DOMAIN items THEN items[i + 1] ELSE Undefined

\* events.items[0]
FirstItem(items) == ItemAt(items, 0)

\* events.items[events.items.length-1]
LastItem(items) == ItemAt(items, Len(items) - 1)

\* !events.items: the response has no items field (an array, even an empty
\* one, is truthy)
NoItems(resp) == "items" \notin DOMAIN resp

\* fault names the external call that fails in this invocation: "list" and
\* "get" raise, "getNull" makes getEventById return null
_getLastEditedEvent(resp, fault) ==
    IF fault = "list"
    THEN [raised |-> "ServiceError", at |-> "list", fetched |-> <<>>, event |-> Null]
    ELSE IF NoItems(resp)
    THEN [raised |-> "NoEventFound", at |-> Null, fetched |-> <<>>, event |-> Null]
    ELSE LET event == LastItem(resp.items)
         IN  IF Falsy(event)
             THEN [raised |-> "NoEventFound", at |-> Null, fetched |-> <<>>,
                   event |-> Null]
             ELSE IF fault = "get"
             THEN [raised |-> "ServiceError", at |-> "get", fetched |-> <<event>>,
                   event |-> Null]
             ELSE [raised |-> Null, at |-> Null, fetched |-> <<event>>,
                   event |-> IF fault = "getNull" THEN Null ELSE event]

----------------------------------------------------------------------------
(* onCalendarUpdate *)

SkipMarker == <<":", "s", "k", "i", "p", ":">>

\* the ":skip:" test made on the title
SkipInTitle(ev) == Includes(ev.title, SkipMarker)

\* description.includes(":skip:")
IsSkipped(ev) == Includes(ev.description, SkipMarker)

\* a catch that takes every error for NoEventFound
IsAnyError(err) == err # Null

\* err instanceof NoEventFound
IsNoEventFound(err) == err = "NoEventFound"

\* _processEventByType called without the test of eventType
AlwaysProcess(type) == TRUE

\* if (eventType)
HasType(type) == ~Falsy(type)

\* the two steps in the other order: the color set before the title
ProcessThenEnrich(id, ev, fault) ==
    LET type == Enrich(ev.title).eventType
        p == IF HasType(type)
             THEN _processEventByType(id, ev, type, fault = "setColor")
             ELSE [event |-> ev, calls |-> <<>>, raised |-> Null]
    IN  IF p.raised # Null
        THEN [event |-> p.event, calls |-> p.calls, raised |-> p.raised,
              at |-> "setColor", eventType |-> "unset"]
        ELSE LET u == _updateEventTitleAndGetType(p.event, fault = "setTitle")
             IN  [event |-> u.event, calls |-> p.calls \o u.calls,
                  raised |-> u.raised,
                  at |-> IF u.raised # Null THEN "setTitle" ELSE Null,
                  eventType |-> u.returned]

\* const eventType = _updateEventTitleAndGetType(event);
\* if (eventType) _processEventByType({event, eventType});
EnrichAndProcess(id, ev, fault) ==
    LET u == _updateEventTitleAndGetType(ev, fault = "setTitle")
    IN  IF u.raised # Null
        THEN [event |-> u.event, calls |-> u.calls, raised |-> u.raised,
              at |-> "setTitle", eventType |-> u.returned]
        ELSE IF ~HasType(u.returned)
        THEN [event |-> u.event, calls |-> u.calls, raised |-> Null,
              at |-> Null, eventType |-> u.returned]
        ELSE LET p == _processEventByType(id, u.event, u.returned, fault = "setColor")
             IN  [event |-> p.event, calls |-> u.calls \o p.calls,
                  raised |-> p.raised,
                  at |-> IF p.raised = "ServiceError" THEN "setColor" ELSE Null,
                  eventType |-> u.returned]

Faults == {"none", "list", "get", "getNull", "setTitle", "setColor"}

\* what one invocation finds and does, without the events it leaves
Done(out, r, at, made, type, skip) ==
    [outcome |-> out, caught |-> IsNoEventFound(r.raised), fetched |-> r.fetched,
     resolved |-> r.event, raisedAt |-> at, calls |-> made, eventType |-> type,
     skipped |-> skip]

\* One invocation of the handler, whole, on the calendar as it is: the
\* events it leaves and what it did. fault is the external call that fails
\* in it (an invocation ends at the first call that raises).
onCalendarUpdate(fault) ==
    LET r == _getLastEditedEvent(listing, fault)
    IN  IF r.raised # Null
        THEN [events |-> events,
              done |-> Done(IF IsNoEventFound(r.raised) THEN "returned" ELSE r.raised,
                            r, r.at, <<>>, "unset", FALSE)]
        ELSE IF r.event = Null
        THEN \* event.getTitle() on null
             [events |-> events, done |-> Done("TypeError", r, Null, <<>>, "unset", FALSE)]
        ELSE IF IsSkipped(events[r.event])
        THEN [events |-> events, done |-> Done("returned", r, Null, <<>>, "unset", TRUE)]
        ELSE LET e == EnrichAndProcess(r.event, events[r.event], fault)
             IN  [events |-> [events EXCEPT ![r.event] = e.event],
                  done |-> Done(IF e.raised # Null THEN e.raised ELSE "returned",
                                r, e.at, e.calls, e.eventType, FALSE)]

\* what the last invocation found and did
Last ==
    [outcome |-> outcome, caught |-> caught, fetched |-> fetched,
     resolved |-> resolved, raisedAt |-> raisedAt, calls |-> calls,
     eventType |-> eventType, skipped |-> skipped]

\* the calendar trigger runs the handler
Trigger(fault) ==
    \E h \in {onCalendarUpdate(fault)} :
        /\ events' = h.events
        /\ before' = events
        /\ outcome' = h.done.outcome
        /\ caught' = h.done.caught
        /\ fetched' = h.done.fetched
        /\ resolved' = h.done.resolved
        /\ raisedAt' = h.done.raisedAt
        /\ calls' = h.done.calls
        /\ eventType' = h.done.eventType
        /\ skipped' = h.done.skipped
        /\ UNCHANGED listing

\* an invocation would leave the state other than it is
Changes(fault) ==
    \E h \in {onCalendarUpdate(fault)} :
        h.events # events \/ before # events \/ h.done # Last

----------------------------------------------------------------------------
(* Inputs and specifications. *)

Str_skip_inside == <<"a">> \o SkipMarker \o <<"b">>
Str_skip_open == <<":", "s", "k", "i", "p">>
Descriptions == {<<>>, Str_skip_inside, Str_skip_open}

\* concatenations of n pieces
RECURSIVE Concat(_, _)
Concat(pieces, n) ==
    IF n = 0 THEN {<<>>}
    ELSE {p \o t : p \in pieces, t \in Concat(pieces, n - 1)}

ConcatUpTo(pieces, n) == UNION {Concat(pieces, k) : k \in 0..n}

\* pieces of a title for the title rewrite: tags, closed and open, that can
\* share a colon with their neighbour
Pieces == {<<":">>, <<":", "x">>, <<":", "$">>,
           Tag(<<"r","u","n">>), Tag(<<"g","y","m">>)}

\* pieces of the title of an event for the handler: a tag of each type, a
\* tag without type, an unknown tag
EventPieces == {Tag(<<"r","u","n">>), Tag(<<"b","i","k","e">>),
                Tag(<<"b","i","r","t","h">>), Tag(<<"c","e","n","a">>),
                Tag(<<"o","s","p">>), Tag(<<"g","y","m">>),
                Tag(<<"$">>), Tag(<<"x">>)}

Slots == EventIds \cup {Null}

RECURSIVE SlotSeqs(_)
SlotSeqs(n) ==
    IF n = 0 THEN {<<>>}
    ELSE {Append(s, x) : s \in SlotSeqs(n - 1), x \in Slots}

\* the responses of Calendar.Events.list: without items, or with up to
\* MaxItems slots
Responses ==
    {[kind |-> "calendar#events"]} \cup
    {[kind |-> "calendar#events", items |-> s] :
        s \in UNION {SlotSeqs(k) : k \in 0..MaxItems}}

Idle ==
    /\ before = events
    /\ fetched = <<>>
    /\ resolved = Null
    /\ calls = <<>>
    /\ eventType = "unset"
    /\ skipped = FALSE
    /\ caught = FALSE
    /\ raisedAt = Null
    /\ outcome = "idle"

OtherEvent == [title |-> Tag(<<"g","y","m">>), description |-> <<>>, color |-> ""]

\* the handler on any calendar
Init ==
    /\ \E t \in ConcatUpTo(EventPieces, MaxEventLen), d \in Descriptions :
          events = [i \in EventIds |->
                      IF i = "e1" THEN [title |-> t, description |-> d, color |-> ""]
                      ELSE OtherEvent]
    /\ listing \in Responses
    /\ Idle

Next == \E fault \in Faults : Trigger(fault)

Spec == Init /\ [][Next]_vars

\* the handler invoked again and again on one event, the last of the listing
InitSame ==
    /\ \E t \in ConcatUpTo(Pieces, MaxLen) :
          events = [i \in EventIds |->
                      IF i = "e1" THEN [title |-> t, description |-> <<>>, color |-> ""]
                      ELSE OtherEvent]
    /\ listing = [kind |-> "calendar#events", items |-> <<"e2", "e1">>]
    /\ Idle

NextSame == \E fault \in {"none", "setTitle", "setColor"} : Trigger(fault)

\* WF_vars(Trigger("none")), its ENABLED <<Trigger("none")>>_vars written as
\* the state predicate Changes("none"): the trigger keeps firing, and an
\* invocation in which no external call fails keeps happening
FairTrigger == []<>(~Changes("none")) \/ []<><<Trigger("none")>>_vars

SpecSame == InitSame /\ [][NextSame]_vars /\ FairTrigger

----------------------------------------------------------------------------
(* Notions the properties are stated with. *)

\* the last invocation resolved an event, was not skipped and ran to its end
Enriched == outcome = "returned" /\ resolved # Null /\ ~skipped

\* the title the last invocation read, and the title it left
TitleBefore == before[resolved].title
TitleAfter == events[resolved].title

\* last index <= i of s that holds no word character (0 if none)
RECURSIVE WordStart(_, _)
WordStart(s, i) ==
    IF i >= 1 /\ s[i] \in LowerCase \cup {"$"} THEN WordStart(s, i - 1) ELSE i

\* s has a substring :w:w': of two tag-shaped tokens that share a colon
HasSharedColon(s) ==
    \E j \in 1..Len(s) :
        /\ s[j] = ":"
        /\ LET i == WordStart(s, j - 1)
               k == WordEnd(s, j + 1)
           IN  /\ i >= 1 /\ i < j - 1 /\ s[i] = ":"
               /\ k <= Len(s) /\ k > j + 1 /\ s[k] = ":"

\* s with every literal occurrence of a tag of the table replaced by its
\* emoji, and nothing else altered
RECURSIVE ReplaceEveryTag(_)
ReplaceEveryTag(s) ==
    IF s = <<>> THEN <<>>
    ELSE IF \E tag \in Tags : StartsWith(s, tag)
         THEN LET tag == CHOOSE tg \in Tags : StartsWith(s, tg)
              IN  <<titleEnrichmentsAndTypes[tag].emoji>>
                      \o ReplaceEveryTag(SubSeq(s, Len(tag) + 1, Len(s)))
         ELSE <<Head(s)>> \o ReplaceEveryTag(Tail(s))

Emojis == {titleEnrichmentsAndTypes[tag].emoji : tag \in Tags}

TypeOf(token) ==
    IF token \in Tags THEN titleEnrichmentsAndTypes[token].eventType ELSE Null

\* the type of the leftmost of the tags of s that have a type, "null" if no
\* tag of s has one; the tags of s are its matches of the pattern
LeftmostType(s) ==
    LET tokens == MatchAll(s)
        typed == {i \in DOMAIN tokens : TypeOf(tokens[i]) # Null}
    IN  IF typed = {} THEN Null
        ELSE TypeOf(tokens[CHOOSE i \in typed : \A j \in typed : i <= j])

\* d contains ":skip:"
HasSkipMarker(d) ==
    \E i \in 1..(Len(d) - 5) : SubSeq(d, i, i + 5) = <<":", "s", "k", "i", "p", ":">>

ColorCalls == SelectSeq(calls, LAMBDA c : c.op = "setColor")

FixedColor ==
    [t \in {"RUN", "BIKE", "BIRTHDAY", "DINNER", "HEALTH", "GYM"} |->
        CASE t \in {"RUN", "BIKE"} -> "GRAY"
          [] t = "BIRTHDAY" -> "YELLOW"
          [] t = "DINNER" -> "BLUE"
          [] t = "HEALTH" -> "RED"
          [] t = "GYM" -> "PALE_RED"]

\* the listing is empty (no items, or no slot) or its last slot is null
NothingListed ==
    \/ "items" \notin DOMAIN listing
    \/ Len(listing.items) = 0
    \/ listing.items[Len(listing.items)] = Null

----------------------------------------------------------------------------
(* Properties. *)

\* C1 (as stated): the title an invocation leaves is rewritten to itself:
\* enrich(enrich(title).newTitle).newTitle = enrich(title).newTitle.
C1_Idempotent ==
    Enriched => Enrich(TitleAfter).newTitle = TitleAfter

\* C1 (amended): for every title in which no two tag-shaped tokens share a
\* colon, the title an invocation leaves is rewritten to itself.
C1_IdempotentWithoutSharedColon ==
    (Enriched /\ ~HasSharedColon(TitleBefore))
        => Enrich(TitleAfter).newTitle = TitleAfter

C1_Witness ==
    /\ Enriched
    /\ ~HasSharedColon(TitleBefore)
    /\ TitleAfter # TitleBefore
    /\ MatchAll(TitleAfter) # <<>>

\* C2 (as stated): the title an invocation leaves is the title it read with
\* every literal occurrence of a tag of the table replaced by its emoji and
\* no other text altered.
C2_EveryOccurrenceReplaced ==
    Enriched => TitleAfter = ReplaceEveryTag(TitleBefore)

\* C2 (amended): the same, for every title in which no two tag-shaped tokens
\* share a colon.
C2_EveryOccurrenceReplacedWithoutSharedColon ==
    (Enriched /\ ~HasSharedColon(TitleBefore))
        => TitleAfter = ReplaceEveryTag(TitleBefore)

C2_Witness ==
    /\ Enriched
    /\ ~HasSharedColon(TitleBefore)
    /\ Len(SelectSeq(TitleAfter, LAMBDA c : c \in Emojis)) >= 2
    /\ \E i \in DOMAIN TitleAfter : TitleAfter[i] = ":"

\* C3: the type _updateEventTitleAndGetType returns is the type of the
\* leftmost of the title's tags that have a type, whatever tags follow it and
\* whatever tags without type precede it, and null when no tag has a type.
C3_FirstTypeWins ==
    (resolved # Null /\ eventType # "unset") => eventType = LeftmostType(TitleBefore)

C3_Witness ==
    /\ resolved # Null
    /\ eventType = "RUN"
    /\ LET tokens == MatchAll(TitleBefore)
       IN  /\ Len(tokens) = 3
           /\ tokens[1] \in Tags /\ TypeOf(tokens[1]) = Null
           /\ TypeOf(tokens[3]) = "GYM"

\* C4: an invocation whose resolved event has ":skip:" in its description
\* makes no setTitle and no setColor call and leaves every event as it was.
C4_SkipLeavesEvent ==
    (outcome # "idle" /\ resolved # Null /\ HasSkipMarker(before[resolved].description))
        => (calls = <<>> /\ events = before)

C4_Witness ==
    /\ outcome = "returned"
    /\ resolved # Null
    /\ HasSkipMarker(before[resolved].description)
    /\ LeftmostType(TitleBefore) # Null

\* C5 (as stated): an invocation that ends with an exception leaves every
\* event as it was when the invocation began.
C5_FailureLeavesEvent ==
    outcome \notin {"idle", "returned"} => events = before

\* C5 (amended): an invocation that ends with an exception leaves the color
\* and the description of every event as they were, and leaves the titles as
\* they were unless the exception is setColor's: then setTitle has already
\* rewritten the title of the resolved event, and only that.
C5_FailureLeavesEventUnlessSetColor ==
    outcome \notin {"idle", "returned"} =>
        /\ \A i \in EventIds :
              /\ events[i].color = before[i].color
              /\ events[i].description = before[i].description
        /\ events # before =>
              /\ raisedAt = "setColor"
              /\ calls[1] = SetTitleCall(TitleAfter)
              /\ \A i \in EventIds \ {resolved} : events[i] = before[i]

C5_Witness ==
    /\ outcome = "ServiceError"
    /\ raisedAt = "setColor"
    /\ events # before

C7_OnlyNoEventFoundIsCaught ==
    /\ caught =>
          /\ outcome = "returned"
          /\ fetched = <<>> /\ resolved = Null
          /\ calls = <<>> /\ events = before
    /\ raisedAt \in {"list", "get"} =>
          /\ outcome = "ServiceError"
          /\ calls = <<>> /\ events = before

C7_Witness ==
    /\ outcome = "ServiceError"
    /\ raisedAt = "get"
    /\ LeftmostType(events[fetched[1]].title) # Null

\* C8: in an invocation that is not skipped and whose title rewrite has
\* returned, setColor is called exactly when the title has a type, once and
\* with the fixed color of that type, which the event then has unless the
\* call raises; when the title has no type the color is left as it was.
C8_ColorByType ==
    (resolved # Null /\ eventType # "unset") =>
        LET type == LeftmostType(TitleBefore)
        IN  IF type # Null
            THEN /\ ColorCalls = <<SetColorCall(FixedColor[type])>>
                 /\ raisedAt # "setColor" => events[resolved].color = FixedColor[type]
            ELSE /\ ColorCalls = <<>>
                 /\ events[resolved].color = before[resolved].color

C8_Witness ==
    /\ outcome = "returned"
    /\ resolved # Null
    /\ LeftmostType(TitleBefore) = "GYM"
    /\ events[resolved].color = "PALE_RED"
    /\ before[resolved].color # "PALE_RED"

\* C9: no invocation raises EventNull or EventTypeNull.
C9_NoContractError ==
    outcome \notin {"EventNull", "EventTypeNull"}

C9_Witness ==
    /\ outcome = "returned"
    /\ resolved # Null
    /\ eventType = Null
    /\ calls # <<>>

\* C10: invoked again and again on one event, with no edit in between, the
\* handler comes to an invocation that makes no setTitle and no setColor
\* call, and from then on no invocation makes one.
C10_WritesStop ==
    <>[](outcome = "returned" /\ calls = <<>>)

C10_Witness ==
    /\ outcome = "returned"
    /\ calls = <<>>
    /\ before = events
    /\ \E i \in DOMAIN events["e1"].title : events["e1"].title[i] \in Emojis
    /\ events["e1"].color # ""

====
